---- MODULE Spec2Model ----
(***************************************************************************)
(* hvm: release resolution, checksum-verified installation and the         *)
(* active-version switch.  The state is the part of the file system hvm     *)
(* reads and writes (<home>/.hvm and <home>/bin) and the outcome of the      *)
(* last command; every command is one action, its network responses are     *)
(* the action's inputs.                                                      *)
(***************************************************************************)
EXTENDS Naturals, Sequences, FiniteSets, TLC

VARIABLES
    hvmHome,    \* BOOLEAN: <home>/.hvm exists
    dirs,       \* set of directories below <home>/.hvm, as path tuples
    files,      \* regular files below <home>/.hvm: path tuple -> content digest
    binDir,     \* BOOLEAN: <home>/bin exists
    bin,        \* tool -> the entry at <home>/bin/<tool>
    runs,       \* number of commands run so far
    last,       \* what the last command was given, printed and returned
    procs       \* the commands that run side by side: process -> its position

vars == <<hvmHome, dirs, files, binDir, bin, runs, last, procs>>

----------------------------------------------------------------------------
(* Bounds of the model *)

\* commands run in one behaviour
MaxRuns == 3

\* anchors of a release listing in the enumeration of listings
MaxAnchors == 3

----------------------------------------------------------------------------
(* Names and strings *)

Consul == "consul"
Nomad == "nomad"
Vault == "vault"
\* a binary of the WIP list, outside every case of the switches
Sentinel == "sentinel"

Tools == {Consul, Nomad, Vault, Sentinel}

Packer == "packer"
Terraform == "terraform"
Vagrant == "vagrant"
ConsulTemplate == "consul-template"
EnvConsul == "envconsul"

\* every binary name of the constants
Binaries == Tools \cup {Packer, Terraform, Vagrant, ConsulTemplate, EnvConsul}

\* case Consul, Nomad, Packer, Vagrant, Terraform of getLatestVersion
CheckpointBinaries == {Consul, Nomad, Packer, Vagrant, Terraform}

\* a switch of installBinary that has a case for every binary
SupportedBinariesAll == Binaries

\* case Consul, Nomad, Packer, Terraform, Vagrant, Vault of installBinary
SupportedBinaries == {Consul, Nomad, Packer, Terraform, Vagrant, Vault}

\* runtime.GOOS, runtime.GOARCH of the build
BinaryOS == "linux"
BinaryArch == "amd64"

\* A string that may start with "<tool>_" is a record: prefix is the tool
\* name (or "" when there is no such prefix), text is what follows.
Str(s) == [prefix |-> "", text |-> s]
Prefixed(tool, s) == [prefix |-> tool, text |-> s]

ParentDir == Str("../")
FloorVersion == Str("0.1.0")

\* strings.TrimPrefix(s, fmt.Sprintf("%s_", binary))
TrimPrefix(s, binary) ==
    IF s.prefix = binary THEN Str(s.text) ELSE s

----------------------------------------------------------------------------
(* HTTP responses: a transport error, or a status with a body *)

NetError == [err |-> TRUE, status |-> 0, body |-> <<>>]
\* the same for the request of an archive and of the checkpoint record
ArchiveError == [err |-> TRUE, status |-> 0, body |-> ""]
CheckpointError ==
    [err |-> TRUE, status |-> 0, body |-> [json |-> FALSE, current_version |-> ""]]
Response(status, body) == [err |-> FALSE, status |-> status, body |-> body]
StatusOK == 200
\* a status other than http.StatusOK
StatusNotFound == 404

\* fetchData(m, URL) with the response of its GET: err != nil
fetchData(resp) == resp.err \/ resp.status # StatusOK

----------------------------------------------------------------------------
(* The install tree *)

\* fmt.Sprintf("%s/%s/%s", HvmHome, binary, version), relative to HvmHome;
\* an empty version leaves the path of the tool's directory
VersionPath(binary, version) ==
    IF version = "" THEN <<binary>> ELSE <<binary, version>>

\* fmt.Sprintf("%s/%s", targetPath, binary)
InstallPath(binary, version) == VersionPath(binary, version) \o <<binary>>

\* os.Stat(path) without error
StatOK(path) == path \in dirs \/ path \in DOMAIN files

Prefixes(path) == {SubSeq(path, 1, n) : n \in 1..Len(path)}

\* a check that leaves the version out of the path
IsInstalledVersionOfTool(binary, checkVersion) == StatOK(<<binary>>)

\* IsInstalledVersion: os.Stat of <HvmHome>/<binary>/<checkVersion>
IsInstalledVersion(binary, checkVersion) ==
    StatOK(VersionPath(binary, checkVersion))

----------------------------------------------------------------------------
(* ValidateVersion *)

\* a scan that goes on past the floor version to the end of the document
RECURSIVE ScanAnchorsPastFloor(_, _, _, _)
ScanAnchorsPastFloor(binary, doc, i, binaryVersions) ==
    IF i > Len(doc)
    THEN [eof |-> FloorVersion \notin {binaryVersions[k] : k \in 1..Len(binaryVersions)},
          versions |-> binaryVersions]
    ELSE LET version == TrimPrefix(doc[i], binary) IN
         IF version = ParentDir
         THEN ScanAnchorsPastFloor(binary, doc, i + 1, binaryVersions)
         ELSE ScanAnchorsPastFloor(binary, doc, i + 1, Append(binaryVersions, version))

\* The scan of the listing's anchors, from anchor i on, with the versions
\* found so far: the versions up to the floor, or EOF when the document ends.
RECURSIVE ScanAnchors(_, _, _, _)
ScanAnchors(binary, doc, i, binaryVersions) ==
    IF i > Len(doc)
    THEN [eof |-> TRUE, versions |-> binaryVersions]
    ELSE LET version == TrimPrefix(doc[i], binary) IN
         IF version = ParentDir
         THEN ScanAnchors(binary, doc, i + 1, binaryVersions)
         ELSE IF version = FloorVersion
         THEN [eof |-> FALSE, versions |-> Append(binaryVersions, version)]
         ELSE ScanAnchors(binary, doc, i + 1, Append(binaryVersions, version))

InSlice(x, s) == \E k \in 1..Len(s) : s[k] = x

\* a membership test that accepts any version once the listing has some
ValidateVersionAnyMatch(binary, binaryVersion, resp) ==
    IF resp.err
    THEN [valid |-> FALSE, err |-> TRUE]
    ELSE LET scan == ScanAnchors(binary, resp.body, 1, <<>>) IN
         IF scan.eof
         THEN [valid |-> FALSE, err |-> FALSE]
         ELSE [valid |-> Len(scan.versions) > 0, err |-> FALSE]

\* ValidateVersion(binary, binaryVersion) with the response of the GET of
\* the release listing: (validVersion, err != nil)
ValidateVersion(binary, binaryVersion, resp) ==
    IF resp.err
    THEN [valid |-> FALSE, err |-> TRUE]
    ELSE LET scan == ScanAnchors(binary, resp.body, 1, <<>>) IN
         IF scan.eof
         THEN [valid |-> FALSE, err |-> FALSE]
         ELSE [valid |-> InSlice(Str(binaryVersion), scan.versions), err |-> FALSE]

----------------------------------------------------------------------------
(* go-version: the version strings of the model and what they parse to *)

SemVer ==
    [s \in {"0.0.0", "0.1.0", "0.6.0", "0.8.5", "1.4.2"} |->
        CASE s = "0.0.0" -> <<0, 0, 0>>
          [] s = "0.1.0" -> <<0, 1, 0>>
          [] s = "0.6.0" -> <<0, 6, 0>>
          [] s = "0.8.5" -> <<0, 8, 5>>
          [] s = "1.4.2" -> <<1, 4, 2>>]

\* version.NewVersion(s): err != nil for a string that is no version
NewVersion(s) ==
    IF s \in DOMAIN SemVer
    THEN [err |-> FALSE, segments |-> SemVer[s]]
    ELSE [err |-> TRUE, segments |-> <<0, 0, 0>>]

\* a.Compare(b) >= 0 on the segments of two release versions
SegmentsGE(a, b) ==
    \/ a[1] > b[1]
    \/ a[1] = b[1] /\ a[2] > b[2]
    \/ a[1] = b[1] /\ a[2] = b[2] /\ a[3] >= b[3]

\* version.NewConstraint(">= 0.0.1")
MinLatestSegments == <<0, 0, 1>>
\* version.NewConstraint(">= 0.7.0-beta1"): a release version satisfies it
\* exactly when it is at least 0.7.0
NomadBoundarySegments == <<0, 7, 0>>

----------------------------------------------------------------------------
(* getLatestVersion *)

\* a scrape that takes the last anchor whose text is not "../"
RECURSIVE LastAnchor(_, _)
LastAnchor(doc, i) ==
    IF i > Len(doc)
    THEN [found |-> FALSE, text |-> Str("")]
    ELSE LET rest == LastAnchor(doc, i + 1) IN
         IF rest.found THEN rest
         ELSE IF doc[i] # ParentDir
              THEN [found |-> TRUE, text |-> TrimPrefix(doc[i], Vault)]
              ELSE rest

\* The Vault scrape: the first anchor whose text is not "../"
RECURSIVE FirstAnchor(_, _)
FirstAnchor(doc, i) ==
    IF i > Len(doc)
    THEN [found |-> FALSE, text |-> Str("")]
    ELSE IF doc[i] # ParentDir
         THEN [found |-> TRUE, text |-> TrimPrefix(doc[i], Vault)]
         ELSE FirstAnchor(doc, i + 1)

\* The Go string that a string record stands for
Plain(s) == IF s.prefix = "" THEN s.text ELSE s.prefix \o "_" \o s.text

\* a resolution that hands on the current_version of any JSON body
getLatestVersionUnchecked(binary, resp) ==
    CASE binary \in CheckpointBinaries \cup {Vault} ->
            IF resp.err \/ binary = Vault \/ ~resp.body.json
            THEN [version |-> "", err |-> TRUE, msg |-> "latest-error"]
            ELSE [version |-> resp.body.current_version, err |-> FALSE, msg |-> ""]
      [] OTHER -> [version |-> "", err |-> TRUE, msg |-> "unsupported"]

\* getLatestVersion(binary, m) with the response of its GET:
\* (version, err != nil); the body of a checkpoint response is
\* [json |-> the body is JSON, current_version |-> the field]
getLatestVersion(binary, resp) ==
    CASE binary = Vault ->
            IF resp.err
            THEN [version |-> "", err |-> TRUE, msg |-> "latest-error"]
            ELSE LET a == FirstAnchor(resp.body, 1) IN
                 \* html.ErrorToken: return "", err with err == nil
                 IF a.found
                 THEN [version |-> Plain(a.text), err |-> FALSE, msg |-> ""]
                 ELSE [version |-> "", err |-> FALSE, msg |-> ""]
      [] binary \in CheckpointBinaries ->
            IF resp.err \/ ~resp.body.json
            THEN [version |-> "", err |-> TRUE, msg |-> "latest-error"]
            ELSE LET v == NewVersion(resp.body.current_version) IN
                 IF v.err \/ ~SegmentsGE(v.segments, MinLatestSegments)
                 THEN [version |-> "", err |-> TRUE, msg |-> "latest-error"]
                 ELSE [version |-> resp.body.current_version, err |-> FALSE,
                       msg |-> ""]
      [] OTHER -> [version |-> "", err |-> TRUE, msg |-> "unsupported"]

\* getLatestVersion makes a request for the binary
LatestRequested(binary) == binary \in CheckpointBinaries \cup {Vault}

----------------------------------------------------------------------------
(* The checksum manifest *)

\* A file name of the manifest: lead is "./" or "", base is
\* <<tool, version, os, arch>> for <tool>_<version>_<os>_<arch>.zip
FileName(lead, binary, version, os, arch) ==
    [lead |-> lead, base |-> <<binary, version, os, arch>>]

\* fmt.Sprintf("%s_%s_%s_%s.zip", name, version, os, arch)
pkgFilename(binary, version) ==
    FileName("", binary, version, BinaryOS, BinaryArch)

\* a trim that leaves the name as it is
StringsTrimNothing(f) == f

\* strings.Trim(s, "./"): the leading and trailing '.' and '/' go
StringsTrim(f) == [f EXCEPT !.lead = ""]

Put(m, k, v) == [x \in DOMAIN m \cup {k} |-> IF x = k THEN v ELSE m[x]]

\* The scanner loop over the manifest's lines (each line its
\* strings.Fields): the map, or the error or panic that ends the loop
RECURSIVE ScanManifest(_, _, _, _, _)
ScanManifest(binary, version, lines, i, fileSha) ==
    IF i > Len(lines)
    THEN [panic |-> FALSE, err |-> FALSE, fileSha |-> fileSha]
    ELSE LET s == lines[i]
             nv == NewVersion(version)
             inner ==
                 IF Len(s) = 2 /\ binary = Nomad
                 THEN IF SegmentsGE(nv.segments, NomadBoundarySegments)
                      THEN Put(fileSha, StringsTrim(s[2]), s[1])
                      ELSE Put(fileSha, s[2], s[1])
                 ELSE fileSha
         IN  IF Len(s) = 2 /\ binary = Nomad /\ nv.err
             THEN [panic |-> FALSE, err |-> TRUE, fileSha |-> fileSha]
             \* fileSha[s[1]] = s[0] outside the length check
             ELSE IF Len(s) < 2
             THEN [panic |-> TRUE, err |-> FALSE, fileSha |-> fileSha]
             ELSE ScanManifest(binary, version, lines, i + 1,
                               Put(inner, s[2], s[1]))

EmptyMap == [x \in {} |-> ""]

\* a lookup that gives a digest for a missing key
LookupDefault(fileSha, key) == IF key \in DOMAIN fileSha THEN fileSha[key] ELSE "d1"

\* checkSha := fileSha[pkgFilename]: "" for a missing key
Lookup(fileSha, key) == IF key \in DOMAIN fileSha THEN fileSha[key] ELSE ""

\* a getter that fetches the archive and skips the comparison of digests
GetFileUnverified(installPath, checkSha, resp) ==
    IF ~resp.err /\ resp.status = StatusOK
    THEN [err |-> FALSE, files |-> Put(files, installPath, resp.body)]
    ELSE [err |-> TRUE, files |-> files]

\* a getter that verifies the archive and leaves it in its temporary directory
GetFileNotPlaced(installPath, checkSha, resp) ==
    IF ~resp.err /\ resp.status = StatusOK /\ checkSha # "" /\ resp.body = checkSha
    THEN [err |-> FALSE, files |-> files]
    ELSE [err |-> TRUE, files |-> files]

\* getter.GetFile(installPath, "<url>?checksum=sha256:<checkSha>"): nil and
\* the file at installPath when the archive was fetched and its SHA-256 is
\* the one of the URL, an error and no file otherwise (the body of the
\* response is the digest of the archive it carries)
GetFile(installPath, checkSha, resp) ==
    IF ~resp.err /\ resp.status = StatusOK /\ checkSha # "" /\ resp.body = checkSha
    THEN [err |-> FALSE, files |-> Put(files, installPath, resp.body)]
    ELSE [err |-> TRUE, files |-> files]

----------------------------------------------------------------------------
(* <home>/bin *)

NoEntry == [kind |-> "none", target |-> <<>>]
RegularFile == [kind |-> "file", target |-> <<>>]
Directory == [kind |-> "dir", target |-> <<>>]
Symlink(path) == [kind |-> "symlink", target |-> path]

\* os.Lstat(destPath) returns err == nil
LstatOK(binary) == binDir /\ bin[binary].kind # "none"

\* the Lstat/Remove of the first revision of useBinary: whatever is at
\* destPath is removed
NotSymlinkIgnored(binary) == FALSE

\* useBinary's fi.Mode()&os.ModeSymlink test: destPath exists and is no
\* symbolic link
NotSymlink(binary) == LstatOK(binary) /\ bin[binary].kind # "symlink"

----------------------------------------------------------------------------
(* The commands *)

\* a response slot of a request the command did not make
NotRequested == [err |-> FALSE, status |-> 0, body |-> <<>>]
Requested(resp) == resp.err \/ resp.status # 0

\* the transport error of the request getLatestVersion makes for a binary
LatestError(binary) == IF binary = Vault THEN NetError ELSE CheckpointError

ExitOK == 0
ExitError == 1
\* exit status of a Go program that panics
ExitPanic == 2

\* a directory creation that clears the tree first
MkdirAllOnly(path) == Prefixes(path)

\* os.MkdirAll(targetPath, 0770)
MkdirAll(path) == dirs \cup Prefixes(path)

\* installBinary(m) from the switch on m.BinaryName on, for the resolved
\* version: what it returns and what it leaves on disk
installBinary(binary, version, manifestResp, archiveResp) ==
    LET none == [manifest |-> NotRequested, archive |-> NotRequested,
                 checksum |-> ""]
        targetPath == VersionPath(binary, version)
        made == IF StatOK(targetPath) THEN dirs ELSE MkdirAll(targetPath)
        scan == ScanManifest(binary, version, manifestResp.body, 1, EmptyMap)
        checkSha == Lookup(scan.fileSha, pkgFilename(binary, version))
        got == GetFile(InstallPath(binary, version), checkSha, archiveResp)
    IN  IF binary \notin SupportedBinaries
        THEN none @@ [code |-> ExitError, msg |-> "unsupported",
                      dirs |-> dirs, files |-> files]
        ELSE IF fetchData(manifestResp)
        THEN [code |-> ExitError, msg |-> "manifest-fetch",
              dirs |-> made, files |-> files,
              manifest |-> manifestResp, archive |-> NotRequested,
              checksum |-> ""]
        ELSE IF scan.panic
        THEN [code |-> ExitPanic, msg |-> "panic",
              dirs |-> made, files |-> files,
              manifest |-> manifestResp, archive |-> NotRequested,
              checksum |-> ""]
        ELSE IF scan.err
        THEN [code |-> ExitError, msg |-> "manifest-parse",
              dirs |-> made, files |-> files,
              manifest |-> manifestResp, archive |-> NotRequested,
              checksum |-> ""]
        ELSE IF got.err
        THEN [code |-> ExitError, msg |-> "download",
              dirs |-> made, files |-> files,
              manifest |-> manifestResp, archive |-> archiveResp,
              checksum |-> checkSha]
        ELSE [code |-> ExitOK, msg |-> "installed",
              dirs |-> made,
              files |-> got.files,
              manifest |-> manifestResp, archive |-> archiveResp,
              checksum |-> checkSha]

\* installCmd: Args, then Run, for `hvm install args...`
installCmd(args, listingResp, latestResp, manifestResp, archiveResp) ==
    LET binary == args[1]
        quiet == [resolved |-> "", home |-> hvmHome, dirs |-> dirs, files |-> files,
                  listing |-> NotRequested, latest |-> NotRequested,
                  manifest |-> NotRequested, archive |-> NotRequested,
                  checksum |-> ""]
    IN  \* Args reads args[1]
        IF Len(args) < 2
        THEN [quiet EXCEPT !.resolved = "absent"]
                 @@ [code |-> ExitPanic, msg |-> "panic"]
        ELSE
        LET checked == args[2] # ""
            vv == ValidateVersion(binary, args[2], listingResp)
            desired == IF args[2] = "" THEN "latest" ELSE args[2]
            asked == [quiet EXCEPT !.home = TRUE, !.resolved = desired,
                          !.listing = IF checked THEN listingResp ELSE NotRequested]
            lv == getLatestVersion(binary, latestResp)
            version == IF desired = "latest" THEN lv.version ELSE desired
            r == installBinary(binary, version, manifestResp, archiveResp)
        IN  IF checked /\ vv.err
            THEN asked @@ [code |-> ExitError, msg |-> "cannot-validate"]
            ELSE IF IsInstalledVersion(binary, desired)
            THEN asked @@ [code |-> ExitError, msg |-> "already-installed"]
            ELSE IF desired = "latest" /\ lv.err
            THEN [asked EXCEPT !.latest = IF LatestRequested(binary)
                                          THEN latestResp ELSE NotRequested]
                     @@ [code |-> ExitError, msg |-> lv.msg]
            ELSE [code |-> r.code, msg |-> r.msg, resolved |-> version,
                  home |-> TRUE, dirs |-> r.dirs, files |-> r.files,
                  listing |-> asked.listing,
                  latest |-> IF desired = "latest" /\ LatestRequested(binary)
                             THEN latestResp ELSE NotRequested,
                  manifest |-> r.manifest, archive |-> r.archive,
                  checksum |-> r.checksum]

\* os.Symlink(srcPath, destPath) after the Lstat/Remove of useBinary: the
\* entry it leaves at destPath
SymlinkEntry(binary, srcPath) ==
    IF binDir THEN Symlink(srcPath) ELSE NoEntry

\* useCmd: Run and useBinary for `hvm use <binary> --version <version>`
useCmd(binary, version, listingResp) ==
    LET vv == ValidateVersion(binary, version, listingResp)
        srcPath == InstallPath(binary, version)
        early == [home |-> TRUE, entry |-> bin[binary], listing |-> NotRequested]
        asked == [early EXCEPT !.listing = listingResp]
    IN  IF version = ""
        THEN early @@ [code |-> ExitError, msg |-> "unknown-version"]
        ELSE IF vv.err
        THEN asked @@ [code |-> ExitError, msg |-> "cannot-determine"]
        ELSE IF ~vv.valid
        THEN asked @@ [code |-> ExitError, msg |-> "not-a-version"]
        ELSE IF ~IsInstalledVersion(binary, version)
        THEN asked @@ [code |-> ExitError, msg |-> "not-installed"]
        ELSE IF NotSymlink(binary)
        THEN asked @@ [code |-> ExitError, msg |-> "conflict"]
        \* the error of os.Symlink is dropped
        ELSE [asked EXCEPT !.entry = SymlinkEntry(binary, srcPath)]
                 @@ [code |-> ExitOK, msg |-> "now-using"]

----------------------------------------------------------------------------
(* The inputs of the commands *)

Versions == {"0.6.0", "0.8.5"}
Digests == {"d1", "d2"}

\* <binary>_<version> anchors for the versions, newest first
FullListing(binary) ==
    <<ParentDir, Prefixed(binary, "0.8.5"), Prefixed(binary, "0.6.0"),
      Prefixed(binary, "0.1.0")>>

\* a listing of a binary whose first release is later than 0.1.0
NoFloorListing(binary) ==
    <<ParentDir, Prefixed(binary, "0.8.5"), Prefixed(binary, "0.6.0")>>

\* a listing from before the release of 0.8.5
OldListing(binary) ==
    <<ParentDir, Prefixed(binary, "0.6.0"), Prefixed(binary, "0.1.0")>>

ReleasePages(binary) ==
    {NetError, Response(StatusOK, FullListing(binary)),
     Response(StatusOK, NoFloorListing(binary)),
     Response(StatusOK, OldListing(binary))}

LatestResponses(binary) ==
    IF binary = Vault
    THEN {NetError, Response(StatusOK, NoFloorListing(binary)),
          Response(StatusOK, <<ParentDir>>)}
    ELSE {CheckpointError,
          Response(StatusOK, [json |-> TRUE, current_version |-> "0.8.5"]),
          Response(StatusOK, [json |-> TRUE, current_version |-> ""])}

Manifests(binary, version) ==
    LET linux(lead) == FileName(lead, binary, version, BinaryOS, BinaryArch)
        darwin(lead) == FileName(lead, binary, version, "darwin", BinaryArch)
    IN  {NetError,
         Response(StatusOK, << <<"d2", darwin("")>>, <<"d1", linux("")>> >>),
         Response(StatusOK, << <<"d1", darwin("./")>>, <<"d2", linux("./")>> >>),
         Response(StatusOK, << <<"d1", darwin("")>> >>),
         Response(StatusOK, << <<"d1", linux("")>>, <<>> >>)}

Archives == {ArchiveError} \cup {Response(StatusOK, d) : d \in Digests}

InstallArgs == {<<t>> : t \in Tools} \cup {<<t, v>> : t \in Tools, v \in Versions \cup {""}}

----------------------------------------------------------------------------
(* The state machine *)

NoCommand ==
    [op |-> "none", tool |-> "", version |-> "", resolved |-> "",
     code |-> ExitOK, msg |-> "",
     listing |-> NotRequested, latest |-> NotRequested,
     manifest |-> NotRequested, archive |-> NotRequested,
     \* the digest in the URL of the archive request
     checksum |-> ""]

ForeignEntries == {RegularFile, Directory}

\* no command runs side by side with another
NoProcs == <<>>

Init ==
    /\ hvmHome = FALSE
    /\ dirs = {}
    /\ files = EmptyMap
    /\ binDir \in BOOLEAN
    /\ bin \in [Tools -> {NoEntry} \cup ForeignEntries]
    /\ Cardinality({t \in Tools : bin[t] # NoEntry}) <= (IF binDir THEN 1 ELSE 0)
    /\ runs = 0
    /\ last = NoCommand
    /\ procs = NoProcs

Install(args, listingResp, latestResp, manifestResp, archiveResp) ==
    /\ last = NoCommand
    /\ runs < MaxRuns
    /\ \E r \in {installCmd(args, listingResp, latestResp, manifestResp, archiveResp)} :
        /\ runs' = runs + 1
        /\ hvmHome' = r.home
        /\ dirs' = r.dirs
        /\ files' = r.files
        /\ last' = [op |-> "install", tool |-> args[1],
                    version |-> IF Len(args) < 2 THEN "absent" ELSE args[2],
                    resolved |-> r.resolved, code |-> r.code, msg |-> r.msg,
                    listing |-> r.listing, latest |-> r.latest,
                    manifest |-> r.manifest, archive |-> r.archive,
                    checksum |-> r.checksum]
    /\ UNCHANGED <<binDir, bin, procs>>

Use(binary, version, listingResp) ==
    /\ last = NoCommand
    /\ runs < MaxRuns
    /\ \E r \in {useCmd(binary, version, listingResp)} :
        /\ runs' = runs + 1
        /\ hvmHome' = r.home
        /\ bin' = [bin EXCEPT ![binary] = r.entry]
        /\ last' = [op |-> "use", tool |-> binary, version |-> version,
                    resolved |-> version, code |-> r.code, msg |-> r.msg,
                    listing |-> r.listing, latest |-> NotRequested,
                    manifest |-> NotRequested, archive |-> NotRequested,
                    checksum |-> ""]
    /\ UNCHANGED <<dirs, files, binDir, procs>>

\* `hvm install`: the responses are chosen request by request, a request
\* the command does not reach gets no response
InstallStep ==
    /\ last = NoCommand
    /\ runs < MaxRuns
    /\ \E args \in InstallArgs :
        \E l \in IF Len(args) = 2 /\ args[2] # ""
                 THEN ReleasePages(args[1]) ELSE {NetError} :
            \E p1 \in {installCmd(args, l, LatestError(args[1]), NetError, ArchiveError)} :
              IF ~Requested(p1.latest) /\ ~Requested(p1.manifest)
              THEN Install(args, l, LatestError(args[1]), NetError, ArchiveError)
              ELSE \E c \in IF Requested(p1.latest)
                            THEN LatestResponses(args[1]) ELSE {LatestError(args[1])} :
                \E p2 \in {installCmd(args, l, c, NetError, ArchiveError)} :
                  IF ~Requested(p2.manifest)
                  THEN Install(args, l, c, NetError, ArchiveError)
                  ELSE \E m \in Manifests(args[1], p2.resolved) :
                    \E p3 \in {installCmd(args, l, c, m, ArchiveError)} :
                      IF ~Requested(p3.archive)
                      THEN Install(args, l, c, m, ArchiveError)
                      ELSE \E a \in Archives : Install(args, l, c, m, a)

\* `hvm use <binary> --version <version>`
UseStep ==
    /\ last = NoCommand
    /\ runs < MaxRuns
    /\ \E binary \in Tools, version \in Versions \cup {""} :
        \E l \in IF version = "" THEN {NetError} ELSE ReleasePages(binary) :
            Use(binary, version, l)

\* the process of the command exits; the next command starts afresh
Exit ==
    /\ last # NoCommand
    /\ last' = NoCommand
    /\ UNCHANGED <<hvmHome, dirs, files, binDir, bin, runs, procs>>

Next == InstallStep \/ UseStep \/ Exit

Spec == Init /\ [][Next]_vars

----------------------------------------------------------------------------
(* ValidateVersion on its own, over every listing of up to MaxAnchors anchors *)

CheckVersions == {"0.1.0", "0.6.0", "0.8.5"}

Anchors(binary) ==
    {ParentDir, Prefixed(Vault, "0.6.0")}
        \cup {Prefixed(binary, v) : v \in CheckVersions}

Listings(binary) ==
    UNION {[1..n -> Anchors(binary)] : n \in 0..MaxAnchors}

ValidateCall ==
    /\ last = NoCommand
    /\ \E binary \in {Consul, Nomad}, binaryVersion \in CheckVersions :
        \E resp \in {NetError} \cup {Response(StatusOK, doc) : doc \in Listings(binary)} :
            \E vv \in {ValidateVersion(binary, binaryVersion, resp)} :
                /\ hvmHome' = TRUE
                /\ last' = [NoCommand EXCEPT
                                !.op = "validate", !.tool = binary,
                                !.version = binaryVersion, !.resolved = binaryVersion,
                                !.msg = IF vv.err THEN "error"
                                        ELSE IF vv.valid THEN "valid" ELSE "invalid",
                                !.listing = resp]
                /\ UNCHANGED <<dirs, files, binDir, bin, runs, procs>>

InitValidate ==
    /\ hvmHome = FALSE
    /\ dirs = {}
    /\ files = EmptyMap
    /\ binDir = TRUE
    /\ bin = [t \in Tools |-> NoEntry]
    /\ runs = 0
    /\ last = NoCommand
    /\ procs = NoProcs

SpecValidate == InitValidate /\ [][ValidateCall]_vars

----------------------------------------------------------------------------
(* The network steps on their own: ValidateVersion, getLatestVersion and     *)
(* fetchData with responses of either status                                  *)

Statuses == {StatusOK, StatusNotFound}

\* current_version of a checkpoint body; a body without the field leaves
\* m.BinaryLatestVersion at "", as an empty field does
CheckpointVersions == {"", "0.0.0", "0.8.5", "1.4.2", "maintenance"}

CheckpointResponses ==
    {CheckpointError} \cup
    {Response(st, [json |-> j, current_version |-> v]) :
        st \in Statuses, j \in BOOLEAN, v \in CheckpointVersions}

\* anchor texts of a Vault release page, in any order
VaultAnchors ==
    {ParentDir, Prefixed(Vault, "0.8.5"), Prefixed(Vault, "0.6.0"),
     Prefixed(Consul, "0.8.5"), Str("1.4.2")}

VaultDocs ==
    UNION {[1..n -> VaultAnchors] : n \in 0..MaxAnchors} \cup {FullListing(Vault)}

VaultPages ==
    {NetError} \cup
    {Response(st, doc) : st \in Statuses, doc \in VaultDocs}

StepListings(binary) ==
    {NetError} \cup
    {Response(st, doc) : st \in Statuses, doc \in Listings(binary)}

StepManifests(binary, version) ==
    {NetError} \cup
    {Response(st, m.body) :
        st \in Statuses, m \in Manifests(binary, version) \ {NetError}}

ValidateStep ==
    /\ last = NoCommand
    /\ \E binary \in {Consul, Vault}, binaryVersion \in CheckVersions :
        \E resp \in StepListings(binary) :
            \E vv \in {ValidateVersion(binary, binaryVersion, resp)} :
                /\ hvmHome' = TRUE
                /\ last' = [NoCommand EXCEPT
                                !.op = "validate", !.tool = binary,
                                !.version = binaryVersion, !.resolved = binaryVersion,
                                !.msg = IF vv.err THEN "error"
                                        ELSE IF vv.valid THEN "valid" ELSE "invalid",
                                !.listing = resp]
                /\ UNCHANGED <<dirs, files, binDir, bin, runs, procs>>

LatestStep ==
    /\ last = NoCommand
    /\ \E binary \in Binaries :
        \E resp \in IF binary = Vault THEN VaultPages
                    ELSE IF binary \in CheckpointBinaries THEN CheckpointResponses
                    ELSE {NotRequested} :
            \E lv \in {getLatestVersion(binary, resp)} :
                /\ last' = [NoCommand EXCEPT
                                !.op = "latest", !.tool = binary,
                                !.version = "latest", !.resolved = lv.version,
                                !.msg = IF lv.err THEN lv.msg ELSE "resolved",
                                !.latest = resp]
                /\ UNCHANGED <<hvmHome, dirs, files, binDir, bin, runs, procs>>

ManifestStep ==
    /\ last = NoCommand
    /\ \E binary \in {Consul, Nomad}, version \in Versions :
        \E resp \in StepManifests(binary, version) :
            /\ last' = [NoCommand EXCEPT
                            !.op = "manifest", !.tool = binary,
                            !.version = version, !.resolved = version,
                            !.msg = IF fetchData(resp) THEN "error" ELSE "fetched",
                            !.manifest = resp]
            /\ UNCHANGED <<hvmHome, dirs, files, binDir, bin, runs, procs>>

NextSteps == ValidateStep \/ LatestStep \/ ManifestStep

SpecSteps == InitValidate /\ [][NextSteps]_vars

----------------------------------------------------------------------------
(* `hvm use` call by call: invocations that run side by side, and
   invocations that are interrupted *)

\* the invocations that can be in flight at once
MaxProcs == 2
Procs == 1..MaxProcs

\* the tool the invocations are about
SwitchBinary == Consul

\* an invocation that has not started
IdleUse ==
    [pc |-> "idle", binary |-> SwitchBinary, version |-> "",
     code |-> ExitOK, msg |-> "",
     \* os.Remove and os.Symlink of this invocation succeeded
     removed |-> FALSE, created |-> FALSE,
     \* the call an interrupted invocation was about to make
     after |-> "",
     \* history: the entry at <home>/bin when the invocation started, and
     \* whether no other invocation was under way during this one
     entry0 |-> "none", alone |-> TRUE]

\* between the checks of useBinary and its return
InFlightUse(p) == procs[p].pc \in {"lstat", "remove", "symlink"}

Finished(p, code, msg) ==
    [procs EXCEPT ![p].pc = "done", ![p].code = code, ![p].msg = msg]

\* a tree with the given versions of the tool installed
InstalledTree(binary, versions) ==
    [dirs |-> UNION {Prefixes(VersionPath(binary, v)) : v \in versions},
     files |-> [f \in {InstallPath(binary, v) : v \in versions} |-> "d1"]]

InitSwitch ==
    /\ hvmHome = TRUE
    /\ \E versions \in {{"0.8.5"}, Versions} :
          /\ dirs = InstalledTree(SwitchBinary, versions).dirs
          /\ files = InstalledTree(SwitchBinary, versions).files
          /\ \E e \in {NoEntry} \cup ForeignEntries
                      \cup {Symlink(InstallPath(SwitchBinary, v)) : v \in versions} :
                bin = [t \in Tools |-> IF t = SwitchBinary THEN e ELSE NoEntry]
    /\ binDir = TRUE
    /\ runs = 0
    /\ last = NoCommand
    /\ procs = [p \in Procs |-> IdleUse]

\* Run and the checks of useBinary: the version flag, ValidateVersion,
\* IsInstalledVersion
UseStart(p) ==
    /\ procs[p].pc = "idle"
    /\ \E version \in Versions \cup {""} :
        \E l \in IF version = "" THEN {NetError} ELSE ReleasePages(procs[p].binary) :
          \E vv \in {ValidateVersion(procs[p].binary, version, l)} :
            LET binary == procs[p].binary
                others == \E q \in Procs \ {p} : InFlightUse(q)
                msg == IF version = "" THEN "unknown-version"
                       ELSE IF vv.err THEN "cannot-determine"
                       ELSE IF ~vv.valid THEN "not-a-version"
                       ELSE IF ~IsInstalledVersion(binary, version)
                       THEN "not-installed"
                       ELSE ""
            IN  procs' = [q \in Procs |->
                            IF q = p
                            THEN [procs[p] EXCEPT
                                     !.version = version,
                                     !.entry0 = bin[binary].kind,
                                     !.alone = ~others,
                                     !.pc = IF msg = "" THEN "lstat" ELSE "done",
                                     !.code = IF msg = "" THEN ExitOK ELSE ExitError,
                                     !.msg = msg]
                            ELSE IF InFlightUse(q) /\ msg = ""
                            THEN [procs[q] EXCEPT !.alone = FALSE]
                            ELSE procs[q]]
    /\ UNCHANGED <<hvmHome, dirs, files, binDir, bin, runs, last>>

\* os.Lstat(destPath) and the test of the mode
UseLstat(p) ==
    /\ procs[p].pc = "lstat"
    /\ procs' = IF ~LstatOK(procs[p].binary)
                THEN [procs EXCEPT ![p].pc = "symlink"]
                ELSE IF NotSymlink(procs[p].binary)
                THEN Finished(p, ExitError, "conflict")
                ELSE [procs EXCEPT ![p].pc = "remove"]
    /\ UNCHANGED <<hvmHome, dirs, files, binDir, bin, runs, last>>

\* os.Remove(destPath) of an entry that exists
OsRemove(binary) == [bin EXCEPT ![binary] = NoEntry]

\* os.Remove(destPath): an error when the entry is gone
UseRemove(p) ==
    /\ procs[p].pc = "remove"
    /\ IF LstatOK(procs[p].binary)
       THEN /\ bin' = OsRemove(procs[p].binary)
            /\ procs' = [procs EXCEPT ![p].pc = "symlink", ![p].removed = TRUE]
       ELSE /\ bin' = bin
            /\ procs' = Finished(p, ExitError, "unlink")
    /\ UNCHANGED <<hvmHome, dirs, files, binDir, runs, last>>

\* os.Symlink(srcPath, destPath), whose error is dropped: it fails when the
\* entry exists; then "Now using" and return nil
UseSymlink(p) ==
    /\ procs[p].pc = "symlink"
    /\ LET binary == procs[p].binary
           srcPath == InstallPath(binary, procs[p].version)
           made == ~LstatOK(binary) /\ SymlinkEntry(binary, srcPath) # NoEntry
       IN  /\ bin' = IF LstatOK(binary) THEN bin
                     ELSE [bin EXCEPT ![binary] = SymlinkEntry(binary, srcPath)]
           /\ procs' = [Finished(p, ExitOK, "now-using") EXCEPT ![p].created = made]
    /\ UNCHANGED <<hvmHome, dirs, files, binDir, runs, last>>

\* the process is killed between two calls of useBinary
UseKilled(p) ==
    /\ InFlightUse(p)
    /\ procs' = [procs EXCEPT ![p].pc = "killed", ![p].after = procs[p].pc]
    /\ UNCHANGED <<hvmHome, dirs, files, binDir, bin, runs, last>>

NextSwitch ==
    \E p \in Procs :
        UseStart(p) \/ UseLstat(p) \/ UseRemove(p) \/ UseSymlink(p) \/ UseKilled(p)

SpecSwitch == InitSwitch /\ [][NextSwitch]_vars

----------------------------------------------------------------------------
(* `hvm install <binary> <version>` call by call: invocations that run
   side by side *)

\* an invocation that has not started
IdleInstall ==
    [pc |-> "idle", binary |-> SwitchBinary, version |-> "",
     code |-> ExitOK, msg |-> "",
     \* checkSha of installBinary
     checkSha |-> ""]

\* inside installBinary, from the creation of the directory to the download
InInstallBinary(p) == procs[p].pc \in {"mkdir", "manifest", "download"}

InitInstallers ==
    /\ \E versions \in {{}, {"0.6.0"}} :
          /\ hvmHome = (versions # {})
          /\ dirs = InstalledTree(SwitchBinary, versions).dirs
          /\ files = InstalledTree(SwitchBinary, versions).files
    /\ binDir \in BOOLEAN
    /\ bin = [t \in Tools |-> NoEntry]
    /\ runs = 0
    /\ last = NoCommand
    /\ procs = [p \in Procs |-> IdleInstall]

\* Args: ValidateVersion of the version argument; then Run up to the
\* creation of <home>/.hvm
InstallStart(p) ==
    /\ procs[p].pc = "idle"
    /\ \E version \in Versions, l \in ReleasePages(procs[p].binary) :
        \E vv \in {ValidateVersion(procs[p].binary, version, l)} :
            procs' = [procs EXCEPT
                         ![p].version = version,
                         ![p].pc = IF vv.err THEN "done" ELSE "check",
                         ![p].code = IF vv.err THEN ExitError ELSE ExitOK,
                         ![p].msg = IF vv.err THEN "cannot-validate" ELSE ""]
    /\ hvmHome' = TRUE
    /\ UNCHANGED <<dirs, files, binDir, bin, runs, last>>

\* a check that also fails while another invocation installs the version
InstalledCheckLocked(p) ==
    \/ IsInstalledVersion(procs[p].binary, procs[p].version)
    \/ \E q \in Procs \ {p} :
          /\ InInstallBinary(q)
          /\ procs[q].binary = procs[p].binary
          /\ procs[q].version = procs[p].version

\* Run: installedVersion, err = IsInstalledVersion(BinaryName, BinaryDesiredVersion)
InstalledCheck(p) == IsInstalledVersion(procs[p].binary, procs[p].version)

InstallCheck(p) ==
    /\ procs[p].pc = "check"
    /\ procs' = IF InstalledCheck(p)
                THEN Finished(p, ExitError, "already-installed")
                ELSE [procs EXCEPT ![p].pc = "mkdir"]
    /\ UNCHANGED <<hvmHome, dirs, files, binDir, bin, runs, last>>

\* installBinary: os.Stat(targetPath), os.MkdirAll(targetPath)
InstallMkdir(p) ==
    /\ procs[p].pc = "mkdir"
    /\ LET targetPath == VersionPath(procs[p].binary, procs[p].version)
       IN  dirs' = IF StatOK(targetPath) THEN dirs ELSE MkdirAll(targetPath)
    /\ procs' = [procs EXCEPT ![p].pc = "manifest"]
    /\ UNCHANGED <<hvmHome, files, binDir, bin, runs, last>>

\* installBinary: fetchData of the SHA256SUMS file, the scanner loop and
\* checkSha := fileSha[pkgFilename]
InstallManifest(p) ==
    /\ procs[p].pc = "manifest"
    /\ \E manifestResp \in Manifests(procs[p].binary, procs[p].version) :
        \E scan \in {ScanManifest(procs[p].binary, procs[p].version,
                                  manifestResp.body, 1, EmptyMap)} :
            procs' = IF fetchData(manifestResp)
                     THEN Finished(p, ExitError, "manifest-fetch")
                     ELSE IF scan.panic
                     THEN Finished(p, ExitPanic, "panic")
                     ELSE IF scan.err
                     THEN Finished(p, ExitError, "manifest-parse")
                     ELSE [procs EXCEPT
                              ![p].pc = "download",
                              ![p].checkSha =
                                  Lookup(scan.fileSha,
                                         pkgFilename(procs[p].binary, procs[p].version))]
    /\ UNCHANGED <<hvmHome, dirs, files, binDir, bin, runs, last>>

\* installBinary: getter.GetFile(installPath, fullURL)
InstallDownload(p) ==
    /\ procs[p].pc = "download"
    /\ \E archiveResp \in Archives :
        \E got \in {GetFile(InstallPath(procs[p].binary, procs[p].version),
                            procs[p].checkSha, archiveResp)} :
            /\ files' = got.files
            /\ procs' = IF got.err
                        THEN Finished(p, ExitError, "download")
                        ELSE Finished(p, ExitOK, "installed")
    /\ UNCHANGED <<hvmHome, dirs, binDir, bin, runs, last>>

NextInstallers ==
    \E p \in Procs :
        \/ InstallStart(p) \/ InstallCheck(p) \/ InstallMkdir(p)
        \/ InstallManifest(p) \/ InstallDownload(p)

SpecInstallers == InitInstallers /\ [][NextInstallers]_vars

----------------------------------------------------------------------------
(* Properties *)

\* every version string a command can name or resolve
AllVersions == Versions \cup {"", "latest", "absent"}

\* <home>/.hvm/<tool>/<version>/<tool> is a file
ExecutableExists(t, v) == InstallPath(t, v) \in DOMAIN files

\* os.Stat of <home>/.hvm/<tool>/<version> succeeds
OnDisk(t, v) == VersionPath(t, v) \in dirs \cup DOMAIN files

\* the versions the enumeration of a listing yields: its anchors without the
\* "<tool>_" prefix, "../" left out, down to the floor version (or to the end
\* of the document when the floor is not among them)
EnumeratedVersions(binary, doc) ==
    LET floors == {i \in 1..Len(doc) : TrimPrefix(doc[i], binary) = FloorVersion}
        end == IF floors = {} THEN Len(doc)
               ELSE CHOOSE i \in floors : \A j \in floors : i <= j
    IN  {TrimPrefix(doc[i], binary) : i \in 1..end} \ {ParentDir}

\* the digests a manifest gives for the archive of (t, v) on this platform,
\* under the name itself or under "./" and the name
ListedDigests(lines, t, v) ==
    {lines[i][1] : i \in {k \in 1..Len(lines) :
        /\ Len(lines[k]) = 2
        /\ lines[k][2].base = <<t, v, BinaryOS, BinaryArch>>}}

\* C1: IsInstalledVersion(tool, version) is true if and only if the
\* executable <home>/.hvm/<tool>/<version>/<tool> exists; a version
\* directory without the executable is not installed.
C1_InstalledIffExecutable ==
    \A t \in Tools, v \in Versions :
        IsInstalledVersion(t, v) <=> ExecutableExists(t, v)

\* C2: when install completes without error, the executable of the
\* installed (tool, version) exists and IsInstalledVersion is true.
C2_InstallLeavesExecutable ==
    (last.op = "install" /\ last.code = ExitOK)
        => /\ ExecutableExists(last.tool, last.resolved)
           /\ IsInstalledVersion(last.tool, last.resolved)

C2_Witness ==
    /\ last.op = "install" /\ last.code = ExitOK
    /\ last.version = "" /\ last.resolved = "0.8.5"
    /\ ExecutableExists(last.tool, "0.8.5")

\* C3: an install of (T, V) that starts with (T, V) not installed and fails
\* at the manifest fetch or at the archive fetch/checksum leaves
\* IsInstalledVersion(T, V) false.
C3_FailedInstallNotInstalled ==
    [][\A t \in Tools, v \in AllVersions :
          ( /\ last'.op = "install" /\ last'.tool = t /\ last'.resolved = v
            /\ last'.msg \in {"manifest-fetch", "download"}
            /\ ~IsInstalledVersion(t, v) )
              => ~IsInstalledVersion(t, v)']_vars

\* C4: install writes the executable only when the digest of the downloaded
\* archive is the digest the fetched manifest lists for the archive of this
\* platform; on a mismatch install ends with an error and no file is written.
C4_ExecutableOnlyIfDigestListed ==
    [][\A t \in Tools, v \in AllVersions :
          (last'.op = "install" /\ last'.tool = t /\ last'.resolved = v)
              => /\ (files' # files \/ last'.code = ExitOK)
                       => /\ last'.code = ExitOK
                          /\ last'.archive.status = StatusOK
                          /\ last'.archive.body \in ListedDigests(last'.manifest.body, t, v)
                          /\ files' = Put(files, InstallPath(t, v), last'.archive.body)
                 /\ ( /\ last'.archive.status = StatusOK
                      /\ last'.archive.body \notin ListedDigests(last'.manifest.body, t, v) )
                       => /\ last'.code = ExitError
                          /\ files' = files]_vars

C4_Witness ==
    /\ last.op = "install" /\ last.msg = "download"
    /\ last.archive.status = StatusOK
    /\ ListedDigests(last.manifest.body, last.tool, last.resolved) # {}
    /\ last.archive.body \notin ListedDigests(last.manifest.body, last.tool, last.resolved)
    /\ ~ExecutableExists(last.tool, last.resolved)

\* C5: every version that the enumeration of the tool's release listing
\* yields is reported valid by ValidateVersion.
C5_ListedVersionsAreValid ==
    (last.op = "validate" /\ ~last.listing.err
        /\ Str(last.version) \in EnumeratedVersions(last.tool, last.listing.body))
        => last.msg = "valid"

\* C6: ValidateVersion reports valid only a version that is exactly one of
\* the enumerated version strings of the listing: a version that is none of
\* them is invalid.
C6_UnlistedVersionsAreInvalid ==
    (last.op = "validate"
        /\ (last.listing.err
            \/ Str(last.version) \notin EnumeratedVersions(last.tool, last.listing.body)))
        => last.msg # "valid"

C6_Witness ==
    /\ last.op = "validate" /\ last.msg = "invalid"
    /\ FloorVersion \in EnumeratedVersions(last.tool, last.listing.body)
    /\ EnumeratedVersions(last.tool, last.listing.body) \ {FloorVersion} # {}
    /\ Str(last.version) \notin EnumeratedVersions(last.tool, last.listing.body)

\* C7: a use that reports success leaves exactly one entry at
\* <home>/bin/<tool>, a symbolic link to the executable of the requested
\* version, whether or not an entry was there before.
C7_UseLeavesLinkToRequested ==
    (last.op = "use" /\ last.code = ExitOK)
        => bin[last.tool] = Symlink(InstallPath(last.tool, last.version))

\* C8 as stated: when <home>/bin/<tool> exists and is no symbolic link, use
\* ends with the conflict error and leaves the entry as it is.
C8_ForeignEntryConflict ==
    [][\A t \in Tools, v \in AllVersions :
          ( /\ last'.op = "use" /\ last'.tool = t /\ last'.version = v
            /\ binDir /\ bin[t] \in ForeignEntries )
              => /\ bin' = bin
                 /\ last'.code = ExitError
                 /\ last'.msg = "conflict"]_vars

\* C8 amended: when <home>/bin/<tool> exists and is no symbolic link, use
\* ends in an error and leaves the entry as it is; the error is the conflict
\* error when the version is not empty, ValidateVersion accepted it and it is
\* installed.
C8_ForeignEntryKept ==
    [][\A t \in Tools, v \in AllVersions :
          ( /\ last'.op = "use" /\ last'.tool = t /\ last'.version = v
            /\ binDir /\ bin[t] \in ForeignEntries )
              => /\ bin' = bin
                 /\ last'.code = ExitError
                 /\ (OnDisk(t, v) /\ v # ""
                        /\ ValidateVersion(t, v, last'.listing).valid)
                       => last'.msg = "conflict"]_vars

C8_Witness ==
    /\ last.op = "use" /\ last.msg = "conflict"
    /\ bin[last.tool] \in ForeignEntries

\* C9 as stated: use of a version that is not installed ends with the
\* 'not installed' message and exit code 1 and leaves the bin entry alone.
C9_NotInstalledMessage ==
    [][\A t \in Tools, v \in AllVersions :
          ( /\ last'.op = "use" /\ last'.tool = t /\ last'.version = v
            /\ ~OnDisk(t, v) )
              => /\ last'.msg = "not-installed"
                 /\ last'.code = ExitError
                 /\ bin' = bin]_vars

\* C9 amended: use of a version that is not installed ends with exit code 1
\* and leaves the bin entry alone; the message is 'not installed' when the
\* version is not empty and ValidateVersion accepted it.
C9_NotInstalledRefused ==
    [][\A t \in Tools, v \in AllVersions :
          ( /\ last'.op = "use" /\ last'.tool = t /\ last'.version = v
            /\ ~OnDisk(t, v) )
              => /\ last'.code = ExitError
                 /\ bin' = bin
                 /\ (v # "" /\ Requested(last'.listing)
                        /\ ValidateVersion(t, v, last'.listing).valid)
                       => last'.msg = "not-installed"]_vars

C9_Witness ==
    /\ last.op = "use" /\ last.msg = "not-installed"
    /\ ~OnDisk(last.tool, last.version)
    /\ \E t \in Tools, v \in Versions : OnDisk(t, v)

\* C10: a symbolic link at <home>/bin/<tool> always points at an existing
\* executable of the install tree.
C10_LinkNeverDangling ==
    \A t \in Tools :
        bin[t].kind = "symlink" => bin[t].target \in DOMAIN files

\* C11: install invoked with only a tool name resolves the latest version
\* and installs it; the invocation does not crash because the version
\* argument is absent.
C11_OmittedVersionDoesNotCrash ==
    (last.op = "install" /\ last.version = "absent")
        => /\ last.code # ExitPanic
           /\ last.resolved # "absent"

\* C12: install of an explicitly requested version for which ValidateVersion
\* is false is rejected with an error before the fetch: no directory is
\* created and neither the manifest nor the archive is requested.
C12_InvalidVersionRejected ==
    [][\A t \in Tools, v \in Versions :
          ( /\ last'.op = "install" /\ last'.tool = t /\ last'.version = v
            /\ Requested(last'.listing) /\ ~last'.listing.err
            /\ FloorVersion \in EnumeratedVersions(t, last'.listing.body)
            /\ ~ValidateVersion(t, v, last'.listing).valid )
              => /\ last'.code = ExitError
                 /\ dirs' = dirs
                 /\ ~Requested(last'.manifest)
                 /\ ~Requested(last'.archive)]_vars

\* C13: install never fetches for a (tool, version) that is installed at the
\* start of the invocation, also when the version comes from the resolution
\* of the latest version: it ends with exit code 1 and, when the command
\* got past the validation of its arguments, the 'already installed' message.
C13_InstalledNeverFetched ==
    [][\A t \in Tools, v \in Versions :
          ( /\ last'.op = "install" /\ last'.tool = t /\ last'.resolved = v
            /\ IsInstalledVersion(t, v) /\ ExecutableExists(t, v) )
              => /\ ~Requested(last'.manifest)
                 /\ ~Requested(last'.archive)
                 /\ last'.code = ExitError
                 /\ last'.msg \in {"already-installed", "cannot-validate"}]_vars

\* C14: after an install of (tool, version) has failed, a new install of the
\* same (tool, version) runs the fetch again and is not refused as already
\* installed.
C14_RetryFetchesAgain ==
    [][\A t \in SupportedBinaries \cap Tools, v \in Versions :
          ( /\ last'.op = "install" /\ last'.tool = t /\ last'.version = v
            /\ OnDisk(t, v) /\ ~ExecutableExists(t, v)
            /\ ~last'.listing.err )
              => /\ last'.msg # "already-installed"
                 /\ Requested(last'.manifest)]_vars

C16_NonOKStatusIsError ==
    \A step \in {"validate", "latest", "manifest"} :
        LET r == CASE step = "validate" -> last.listing
                   [] step = "latest" -> last.latest
                   [] step = "manifest" -> last.manifest
        IN  (last.op = step /\ Requested(r) /\ ~r.err /\ r.status # StatusOK)
                => last.msg \in {"error", "latest-error"}

\* C17: for a tool outside consul, nomad, packer, terraform, vagrant and
\* vault, install creates no directory and requests neither the latest
\* version, the manifest nor the archive; once the arguments are accepted,
\* the resolution of the latest version and installBinary end with the
\* 'Binary currently unsupported' error.
C17_UnsupportedToolRefused ==
    [][\A t \in Tools \ {Consul, Nomad, Packer, Terraform, Vagrant, Vault},
         v \in AllVersions :
          (last'.op = "install" /\ last'.tool = t /\ last'.version = v)
              => /\ dirs' = dirs /\ files' = files
                 /\ ~Requested(last'.latest)
                 /\ ~Requested(last'.manifest)
                 /\ ~Requested(last'.archive)
                 /\ last'.code # ExitOK
                 /\ (v # "absent" /\ ~last'.listing.err)
                       => (last'.msg = "unsupported" /\ last'.code = ExitError)]_vars

C17_Witness ==
    /\ last.op = "install" /\ last.tool = Sentinel
    /\ last.version \in Versions /\ last.listing.status = StatusOK
    /\ last.msg = "unsupported"
    /\ <<Sentinel>> \notin dirs

\* C18: use reports success only if <home>/bin/<tool> is then a symbolic
\* link to the executable of the requested version; when the link cannot be
\* created, use ends with exit code 1.
C18_SuccessOnlyWithLink ==
    [][\A t \in Tools :
          (last'.op = "use" /\ last'.tool = t)
              => /\ last'.code = ExitOK
                       => /\ bin'[t].kind = "symlink"
                          /\ bin'[t].target = InstallPath(t, last'.version)
                 /\ ~binDir => last'.code = ExitError]_vars

\* C19: the scan of ValidateVersion goes through the anchors in document
\* order, skips "../" and stops at the first anchor whose stripped text is
\* 0.1.0: the versions it accepts are those of the anchors down to that one,
\* the floor included, and no anchor after it.
C19_ScanStopsAtFloor ==
    LET doc == last.listing.body
        text(i) == TrimPrefix(doc[i], last.tool)
        floors == {i \in 1..Len(doc) : text(i) = Str("0.1.0")}
    IN  (last.op = "validate" /\ ~last.listing.err /\ floors # {})
            => /\ last.msg \in {"valid", "invalid"}
               /\ last.msg = "valid"
                    <=> \E i \in 1..Len(doc) :
                           /\ text(i) = Str(last.version)
                           /\ \A j \in floors : i <= j

C19_Witness ==
    LET doc == last.listing.body
    IN  /\ last.op = "validate" /\ last.msg = "invalid"
        /\ Len(doc) = 3
        /\ TrimPrefix(doc[2], last.tool) = Str("0.1.0")
        /\ TrimPrefix(doc[3], last.tool) = Str(last.version)
        /\ last.version # "0.1.0"

\* C20: when the listing ends before an anchor 0.1.0, ValidateVersion ends
\* without error and decides on the versions collected up to the end of the
\* document: a version that was listed is valid.
C20_EndOfListingDecides ==
    LET doc == last.listing.body
        texts == {TrimPrefix(doc[i], last.tool) : i \in 1..Len(doc)}
    IN  (last.op = "validate" /\ ~last.listing.err /\ Str("0.1.0") \notin texts)
            => /\ last.msg # "error"
               /\ last.msg = "valid" <=> Str(last.version) \in texts

\* C21: the resolution of the latest version never returns the empty
\* version without an error: a Vault page that ends without an anchor other
\* than "../" gives an error.
C21_NoEmptyLatestWithoutError ==
    (last.op = "latest" /\ last.msg = "resolved") => last.resolved # ""

\* C22: for Vault the resolution returns the text of the first anchor, in
\* document order, that is not "../", without the prefix "vault_"; the
\* anchors after it have no influence.
C22_VaultFirstAnchor ==
    LET doc == last.latest.body
        others == {i \in 1..Len(doc) : doc[i] # Str("../")}
        text(a) == IF a.prefix \in {"", "vault"} THEN a.text
                   ELSE a.prefix \o "_" \o a.text
    IN  (last.op = "latest" /\ last.tool = Vault /\ ~last.latest.err
            /\ others # {})
            => /\ last.msg = "resolved"
               /\ \E k \in others :
                     /\ \A j \in others : k <= j
                     /\ last.resolved = text(doc[k])

C22_Witness ==
    LET doc == last.latest.body
    IN  /\ last.op = "latest" /\ last.tool = Vault /\ ~last.latest.err
        /\ Len(doc) = 3
        /\ doc[1] = ParentDir
        /\ doc[2] = Prefixed(Vault, "0.6.0")
        /\ doc[3] = Prefixed(Vault, "0.8.5")
        /\ last.resolved = "0.6.0"

\* the lines of a manifest whose file name, as the key of the mapping, is
\* the archive name of (t, v) on this platform: for nomad from 0.7.0 on the
\* name without a leading "./", otherwise the name as it stands
KeyedLines(lines, t, v) ==
    LET trimmed == t = "nomad" /\ v \in DOMAIN SemVer
                      /\ SegmentsGE(SemVer[v], <<0, 7, 0>>)
        key(f) == IF trimmed THEN [lead |-> "", base |-> f.base] ELSE f
    IN  {i \in 1..Len(lines) :
            /\ Len(lines[i]) = 2
            /\ key(lines[i][2]) = [lead |-> "", base |-> <<t, v, "linux", "amd64">>]}

\* C23: the key of a manifest line is the file name without a leading "./"
\* for nomad at or above 0.7.0-beta1 and the file name unmodified for nomad
\* below it and for every other tool; the lookup of
\* <tool>_<version>_<os>_<arch>.zip gives the digest of the line with that key.
C23_LookupGivesLineDigest ==
    LET lines == last.manifest.body
        keyed == KeyedLines(lines, last.tool, last.resolved)
    IN  (last.op = "install" /\ Requested(last.archive) /\ keyed # {})
            => \E i \in keyed :
                  /\ \A j \in keyed : j <= i
                  /\ last.checksum = lines[i][1]

C23_Witness ==
    /\ last.op = "install" /\ last.tool = Nomad /\ last.resolved = "0.8.5"
    /\ last.code = ExitOK
    /\ last.manifest.body[2][2].lead = "./"
    /\ last.checksum = last.manifest.body[2][1]

\* C24: when the manifest has no entry for the archive name, installBinary
\* requests the archive with an empty expected digest, and the install ends
\* with an error at the download; it writes no executable.
C24_MissingEntryFailsAtDownload ==
    [][\A t \in Tools, v \in AllVersions :
          ( /\ last'.op = "install" /\ last'.tool = t /\ last'.resolved = v
            /\ ~last'.manifest.err /\ last'.manifest.status = StatusOK
            /\ \A i \in 1..Len(last'.manifest.body) : Len(last'.manifest.body[i]) = 2
            /\ KeyedLines(last'.manifest.body, t, v) = {} )
              => /\ Requested(last'.archive)
                 /\ last'.checksum = ""
                 /\ last'.code = ExitError /\ last'.msg = "download"
                 /\ files' = files]_vars

C24_Witness ==
    /\ last.op = "install" /\ last.msg = "download"
    /\ last.archive.status = StatusOK
    /\ last.checksum = ""
    /\ KeyedLines(last.manifest.body, last.tool, last.resolved) = {}
    /\ ~ExecutableExists(last.tool, last.resolved)

\* C25: use of an installed (tool, version) creates the link whatever the
\* fetch of the release listing gives.
C25_UseNeedsNoNetwork ==
    [][\A t \in Tools, v \in Versions :
          ( /\ last'.op = "use" /\ last'.tool = t /\ last'.version = v
            /\ ExecutableExists(t, v)
            /\ binDir /\ bin[t] \notin ForeignEntries )
              => /\ last'.code = ExitOK
                 /\ bin'[t] = Symlink(InstallPath(t, v))]_vars

\* C28: a manifest line that is not two whitespace-separated fields never
\* aborts the process: it is skipped and the install goes on to the archive
\* request.
C28_MalformedLineSkipped ==
    (last.op = "install" /\ ~last.manifest.err /\ last.manifest.status = StatusOK
        /\ \E i \in 1..Len(last.manifest.body) : Len(last.manifest.body[i]) # 2)
        => /\ last.code # ExitPanic
           /\ Requested(last.archive)

\* C29: use for a tool changes at most the entry of that tool in <home>/bin
\* and nothing of the install tree; install of (tool, version) changes
\* nothing but the version directory (with the directories that lead to it)
\* and the executable in it, and no entry of <home>/bin.
C29_FrameConditions ==
    [][\A t \in Tools :
          /\ (last'.op = "use" /\ last'.tool = t)
                => /\ dirs' = dirs /\ files' = files /\ binDir' = binDir
                   /\ \A u \in Tools \ {t} : bin'[u] = bin[u]
          /\ (last'.op = "install" /\ last'.tool = t)
                => LET target == IF last'.resolved = "" THEN <<t>>
                                 ELSE <<t, last'.resolved>>
                   IN  /\ bin' = bin /\ binDir' = binDir
                       /\ dirs \subseteq dirs'
                       /\ \A d \in dirs' \ dirs : d \in {<<t>>, target}
                       /\ \A f \in (DOMAIN files \cup DOMAIN files') \ {target \o <<t>>} :
                             /\ f \in DOMAIN files /\ f \in DOMAIN files'
                             /\ files'[f] = files[f]]_vars

C29_Witness ==
    /\ last.op = "install" /\ last.code = ExitOK
    /\ \E t \in Tools \ {last.tool}, v \in Versions :
          /\ ExecutableExists(t, v)
          /\ bin[t] = Symlink(InstallPath(t, v))

\* the invocation was killed after its os.Remove took the link away and
\* before its os.Symlink, and no other invocation ran meanwhile
KilledAfterRemove(p) ==
    /\ procs[p].pc = "killed"
    /\ procs[p].after = "symlink"
    /\ procs[p].removed
    /\ procs[p].alone

\* C26: when a use that replaces a link of hvm is interrupted after the
\* removal of the old link and before the creation of the new one,
\* <home>/bin/<tool> has no entry, and a use of an installed version that
\* runs afterwards ends with exit code 0 and has created the link to its
\* version.
C26_InterruptedUseRecoverable ==
    [][\A p \in Procs :
          /\ (procs[p].pc = "symlink" /\ procs[p].removed /\ procs[p].alone
                 /\ procs'[p].pc = "killed")
                => bin'[procs[p].binary] = NoEntry
          /\ \A q \in Procs \ {p} :
                (/\ KilledAfterRemove(p)
                 /\ procs[q].pc # "done" /\ procs'[q].pc = "done"
                 /\ procs'[q].alone
                 /\ procs'[q].version # ""
                 /\ IsInstalledVersion(procs'[q].binary, procs'[q].version))
                => /\ procs'[q].code = ExitOK
                   /\ procs'[q].created
                   /\ bin'[procs'[q].binary]
                         = Symlink(InstallPath(procs'[q].binary, procs'[q].version))]_vars

\* C30: two uses of installed versions of one tool that start from a link
\* of hvm and run side by side: when all have returned, <home>/bin/<tool>
\* is a link to one of the requested versions, and each invocation that
\* printed "Now using" created the link to its version itself.
C30_ConcurrentUseLinks ==
    (/\ \A p \in Procs : procs[p].pc = "done" /\ procs[p].msg \in {"now-using", "unlink"}
     /\ \A p \in Procs : procs[p].entry0 = "symlink"
     /\ \A p \in Procs : IsInstalledVersion(procs[p].binary, procs[p].version))
    => /\ \E p \in Procs :
             bin[SwitchBinary] = Symlink(InstallPath(SwitchBinary, procs[p].version))
       /\ \A p \in Procs : procs[p].msg = "now-using" => procs[p].created

\* C27: installs of one (tool, version) do not exclude one another: the
\* installed check of an invocation passes whenever the version directory
\* is not on disk, wherever the other invocations are, and an invocation
\* that passed it goes on through the creation of the directory, the
\* manifest and the download on the same install path.
C27_InstallsNotExcluded ==
    [][\A p \in Procs :
          /\ (procs[p].pc = "check" /\ procs'[p] # procs[p])
                => (procs'[p].pc = "mkdir"
                      <=> ~IsInstalledVersion(procs[p].binary, procs[p].version))
          /\ (procs[p].pc = "mkdir" /\ procs'[p] # procs[p])
                => /\ procs'[p].pc = "manifest"
                   /\ VersionPath(procs[p].binary, procs[p].version) \in dirs'
          /\ (procs[p].pc = "download" /\ procs'[p].msg = "installed")
                => ExecutableExists(procs[p].binary, procs[p].version)']_vars

C27_Witness ==
    \E p \in Procs, q \in Procs :
        /\ p # q
        /\ procs[p].binary = procs[q].binary
        /\ procs[p].version = procs[q].version
        /\ procs[p].pc = "download" /\ procs[q].pc = "download"

====
